---------------------------- MODULE Spec2Model ----------------------------
(***************************************************************************)
(* The ical lexer/parser pipeline: lexer.go (the state-function lexer and  *)
(* its unbuffered token channel) and the parser (Parse, scanContentLine,   *)
(* scanDelimiter, the validators and parseDate).                           *)
(*                                                                         *)
(* The input is a sequence of one-character strings.  Every character of   *)
(* the model's alphabet is ASCII, so utf8.DecodeRuneInString always yields *)
(* width 1.  Byte offsets are Go's (0-based); input[p+1] is the byte at    *)
(* offset p.                                                               *)
(***************************************************************************)
EXTENDS Integers, Sequences, FiniteSets, TLC

VARIABLES
    bytes,      \* Parse's bytes: the text read from r
    input,      \* lexer.input: the unfolded text
    start,      \* lexer.start
    pos,        \* lexer.pos
    width,      \* lexer.width
    lastPos,    \* lexer.lastPos
    lpc,        \* where the lexing goroutine stands: the state function to run
                \* next (lexer.state) or a line inside one
    items,      \* lexer.items: <<>> or <<item>>, the item a blocked send offers
    closed,     \* close(l.items) has run
    crashed,    \* a goroutine panicked: the process is gone
    emitted,    \* history: the items handed over the channel, in order
    pc,         \* where the consuming goroutine stands
    consumed,   \* history: the items p.next() received from the channel, in order
    token,      \* parser.token[0]
    peekCount,  \* parser.peekCount
    scope,      \* parser.scope
    c,          \* parser.c: the Calendar
    v,          \* parser.v: index into events, 0 for nil
    a,          \* parser.a: index into alarms, 0 for nil
    events,     \* the Event objects allocated by NewEvent
    alarms,     \* the Alarm objects allocated by NewAlarm
    prop,       \* scanContentLine's prop
    param,      \* scanParams' param
    item,       \* scanParams' item variable
    result      \* what Parse returned: [doc, err]

lexvars == <<input, start, pos, width, lastPos, lpc, items, closed, crashed, emitted>>
parvars == <<bytes, pc, consumed, token, peekCount, scope, c, v, a, events, alarms,
             prop, param, item, result>>
vars == <<bytes, input, start, pos, width, lastPos, lpc, items, closed, crashed, emitted,
          pc, consumed, token, peekCount, scope, c, v, a, events, alarms, prop, param,
          item, result>>

---------------------------------------------------------------------------
\* itemType (iota)
itemError == 0
itemEOF == 1
itemLineEnd == 2
itemComponent == 3
itemParamName == 4
itemParamValue == 5
itemValue == 6
itemColon == 7
itemSemiColon == 8
itemEqual == 9
itemComma == 10
itemKeyword == 11
itemBeginVCalendar == 12
itemEndVCalendar == 13
itemBeginVEvent == 14
itemEndVEvent == 15
itemBeginVAlarm == 16
itemEndVAlarm == 17

\* const eof = -1: the rune next() returns at the end of the input
eof == "eof"

beginVCalendar == <<"B","E","G","I","N",":","V","C","A","L","E","N","D","A","R">>
endVCalendar == <<"E","N","D",":","V","C","A","L","E","N","D","A","R">>
beginVEvent == <<"B","E","G","I","N",":","V","E","V","E","N","T">>
endVEvent == <<"E","N","D",":","V","E","V","E","N","T">>
beginVAlarm == <<"B","E","G","I","N",":","V","A","L","A","R","M">>
endVAlarm == <<"E","N","D",":","V","A","L","A","R","M">>
crlf == <<"\r","\n">>

\* the zero item a receive from the closed channel yields
ZeroItem == [typ |-> itemError, pos |-> 0, val |-> <<>>]

---------------------------------------------------------------------------
\* rune classes (package unicode, restricted to the model's alphabet)
Letters == {"A","B","C","D","E","F","G","H","I","J","K","L","M","N","O","P","Q",
            "R","S","T","U","V","W","X","Y","Z","a","b","c","d","e","f","g","h",
            "i","j","k","l","m","n","o","p","q","r","s","t","u","v","w","x","y","z"}
Digits == {"0","1","2","3","4","5","6","7","8","9"}
Controls == {"\r","\n","\t"}

\* unicode.IsControl(-1) is false: uint32(-1) is above MaxLatin1
IsControl(r) == r \in Controls

\* utf8.ValidRune(-1) is false
ValidRune(r) == r # eof

isName(r) == r \in Letters \/ r \in Digits \/ r = "-"

\* isQSafeChar that also stops at a comma
isQSafeChar_NoComma(r) == ~IsControl(r) /\ r # "\"" /\ r # ","
isQSafeChar(r) == ~IsControl(r) /\ r # "\""

isSafeChar(r) == ~IsControl(r) /\ r # "\"" /\ r # ";" /\ r # ":" /\ r # ","

isValueChar(r) == r = "\t" \/ (~IsControl(r) /\ ValidRune(r))

InClass(cls, r) ==
    CASE cls = "isName" -> isName(r)
      [] cls = "isQSafeChar" -> isQSafeChar(r)
      [] cls = "isSafeChar" -> isSafeChar(r)
      [] cls = "isValueChar" -> isValueChar(r)

---------------------------------------------------------------------------
\* strings.HasPrefix(s[p:], lit)
HasPrefixAt(s, p, lit) ==
    /\ p + Len(lit) <= Len(s)
    /\ SubSeq(s, p + 1, p + Len(lit)) = lit

\* strings.Replace(text, "\r\n ", "", -1): the matches are taken left to
\* right, each search starting after the match before it
fold == <<"\r","\n"," ">>

RECURSIVE unfoldFrom(_, _)
unfoldFrom(text, i) ==
    LET hits == {j \in i..Len(text) : HasPrefixAt(text, j - 1, fold)}
    IN IF hits = {} THEN SubSeq(text, i, Len(text))
       ELSE LET m == CHOOSE j \in hits : \A k \in hits : j <= k
            IN SubSeq(text, i, m - 1) \o unfoldFrom(text, m + Len(fold))

\* strings.Replace(text, "\r\n ", "", 1): only the first match is replaced
unfold_FirstOnly(text) ==
    LET hits == {j \in 1..Len(text) : HasPrefixAt(text, j - 1, fold)}
    IN IF hits = {} THEN text
       ELSE LET m == CHOOSE j \in hits : \A k \in hits : j <= k
            IN SubSeq(text, 1, m - 1) \o SubSeq(text, m + Len(fold), Len(text))

unfold(text) == unfoldFrom(text, 1)

---------------------------------------------------------------------------
\* lexer.next at offset p: the rune and the new offset
RuneAt(p) == IF p >= Len(input) THEN eof ELSE input[p + 1]
WidthAt(p) == IF p >= Len(input) THEN 0 ELSE 1

\* The loop  for { r = l.next(); if !class(r) { l.backup(); ...; break } }
\* started at offset p: the offset it leaves in l.pos, or Diverges when the
\* loop never exits (the class holds of eof, and next() at the end of the
\* input returns eof with width 0 for ever).
Diverges == 0 - 1

RECURSIVE ScanRun(_, _)
ScanRun(cls, p) ==
    IF p >= Len(input)
    THEN IF InClass(cls, eof) THEN Diverges ELSE p
    ELSE IF InClass(cls, input[p + 1]) THEN ScanRun(cls, p + 1) ELSE p

\* l.input[s:p] panics unless 0 <= s <= p <= len(input)
SliceOk(s, p) == 0 <= s /\ s <= p /\ p <= Len(input)
Slice(s, p) == SubSeq(input, s + 1, p)

\* what the lexing goroutine does next leaves: its position, the cursors, and
\* the item its send offers (if it reached a send)
LexTo(l, s, p, w, out) ==
    /\ lpc' = l
    /\ start' = s
    /\ pos' = p
    /\ width' = w
    /\ items' = out
    /\ UNCHANGED <<input, lastPos, closed, emitted>>

\* l.emit(t) with l.start = s, l.pos = p, then continuing at l: the slice
\* panics out of range, otherwise the item is offered and l.start = l.pos
\* (the assignment after the send is private to the goroutine and is taken
\* with the send).
emit(t, s, p, w, l) ==
    IF SliceOk(s, p)
    THEN /\ LexTo(l, p, p, w, <<[typ |-> t, pos |-> s, val |-> Slice(s, p)]>>)
         /\ UNCHANGED crashed
    ELSE /\ LexTo("panic", s, p, w, <<>>)
         /\ crashed' = TRUE

\* l.errorf(msg): offers the error item; what follows is the caller's
errorf(msg, s, p, w, l) ==
    /\ LexTo(l, s, p, w, <<[typ |-> itemError, pos |-> s, val |-> <<msg>>]>>)
    /\ UNCHANGED crashed

\* the goroutine runs only while no send of its own is pending
LexerRuns == items = <<>> /\ ~closed /\ ~crashed

Delimiters ==
    << <<beginVCalendar, itemBeginVCalendar>>, <<endVCalendar, itemEndVCalendar>>,
       <<beginVEvent, itemBeginVEvent>>, <<endVEvent, itemEndVEvent>>,
       <<beginVAlarm, itemBeginVAlarm>>, <<endVAlarm, itemEndVAlarm>> >>

\* the first of the six literals the rest of the input starts with, 0 if none
FirstDelimiter(p) ==
    LET hits == {i \in 1..Len(Delimiters) : HasPrefixAt(input, p, Delimiters[i][1])}
    IN IF hits = {} THEN 0 ELSE CHOOSE i \in hits : \A j \in hits : i <= j

lexComponent ==
    /\ LexerRuns
    /\ lpc = "lexComponent"
    /\ UNCHANGED parvars
    /\ LET d == FirstDelimiter(pos)
       IN IF d # 0
          THEN emit(Delimiters[d][2], start, pos + Len(Delimiters[d][1]), width,
                    "lexNewLine")
          ELSE LET q == ScanRun("isName", pos)
               IN emit(itemComponent, start, q, WidthAt(q), "lexContentLine")

lexNewLine ==
    /\ LexerRuns
    /\ UNCHANGED parvars
    /\ \/ /\ lpc = "lexNewLine"
          /\ IF RuneAt(pos) = eof
             THEN LexTo("nil", start, pos, 0, <<>>) /\ UNCHANGED crashed
             ELSE IF ~HasPrefixAt(input, pos, crlf)
             THEN errorf("unable to find end of line CRLF", start, pos, 1,
                         "lexNewLine_215")
             ELSE emit(itemLineEnd, start, pos + Len(crlf), 1, "lexNewLine_217")
       \/ /\ lpc = "lexNewLine_215"
          /\ emit(itemLineEnd, start, pos + Len(crlf), width, "lexNewLine_217")
       \/ /\ lpc = "lexNewLine_217"
          /\ IF RuneAt(pos) = eof
             THEN emit(itemEOF, start, pos, 0, "nil")
             ELSE LexTo("lexComponent", start, pos, 1, <<>>) /\ UNCHANGED crashed

lexContentLine ==
    /\ LexerRuns
    /\ lpc = "lexContentLine"
    /\ UNCHANGED parvars
    /\ LET r == RuneAt(pos)
           p == pos + WidthAt(pos)
           w == WidthAt(pos)
       IN CASE r = ";" -> emit(itemSemiColon, start, p, w, "lexParamName")
            [] r = ":" -> emit(itemColon, start, p, w, "lexValue")
            [] r = "," -> emit(itemComma, start, p, w, "lexParamValue")
            [] OTHER -> errorf("unrecognized character in action", start, p, w, "nil")

lexParamName ==
    /\ LexerRuns
    /\ UNCHANGED parvars
    /\ \/ /\ lpc = "lexParamName"
          /\ LET q == ScanRun("isName", pos)
             IN emit(itemParamName, start, q, WidthAt(q), "lexParamName_253")
       \/ /\ lpc = "lexParamName_253"
          /\ LET r == RuneAt(pos)
                 p == pos + WidthAt(pos)
                 w == WidthAt(pos)
             IN IF r = "="
                THEN emit(itemEqual, start, p, w, "lexParamValue")
                ELSE errorf("missing = after parameter name", start, p, w, "nil")

lexParamValue ==
    /\ LexerRuns
    /\ UNCHANGED parvars
    /\ \/ /\ lpc = "lexParamValue"
          /\ IF RuneAt(pos) = "\""
             THEN \* l.ignore(), then the isQSafeChar loop
                  LET q == ScanRun("isQSafeChar", pos + 1)
                  IN IF q = Diverges
                     THEN /\ LexTo("lexParamValue_267", pos + 1, Len(input), 0, <<>>)
                          /\ UNCHANGED crashed
                     ELSE emit(itemParamValue, pos + 1, q, WidthAt(q),
                               "lexParamValue_275")
             ELSE \* l.backup(), then the isSafeChar loop
                  LET q == ScanRun("isSafeChar", pos)
                  IN IF q = Diverges
                     THEN /\ LexTo("lexParamValue_282", start, Len(input), 0, <<>>)
                          /\ UNCHANGED crashed
                     ELSE emit(itemParamValue, start, q, WidthAt(q), "lexContentLine")
       \/ /\ lpc = "lexParamValue_275"
          /\ LET r == RuneAt(pos)
                 p == pos + WidthAt(pos)
                 w == WidthAt(pos)
             IN IF r = "\""
                THEN LexTo("lexContentLine", p, p, w, <<>>) /\ UNCHANGED crashed
                ELSE errorf("missing closing quote for parameter value", start, p, w,
                            "lexContentLine")
       \/ \* one more turn of a loop that cannot exit: next() returns eof again
          /\ lpc \in {"lexParamValue_267", "lexParamValue_282"}
          /\ LexTo(lpc, start, pos, 0, <<>>)
          /\ UNCHANGED crashed

lexValue ==
    /\ LexerRuns
    /\ lpc = "lexValue"
    /\ UNCHANGED parvars
    /\ LET q == ScanRun("isValueChar", pos)
       IN emit(itemValue, start, q, WidthAt(q), "lexNewLine")

\* run: the state is nil, the loop ends, close(l.items)
run ==
    /\ LexerRuns
    /\ lpc = "nil"
    /\ lpc' = "closed"
    /\ closed' = TRUE
    /\ UNCHANGED <<input, start, pos, width, lastPos, items, crashed, emitted>>
    /\ UNCHANGED parvars

Lexer ==
    \/ lexComponent
    \/ lexNewLine
    \/ lexContentLine
    \/ lexParamName
    \/ lexParamValue
    \/ lexValue
    \/ run

---------------------------------------------------------------------------
\* nextItem: item := <-l.items.  A receive needs a pending send or the closed
\* channel (which yields the zero item).
Receivable == items # <<>> \/ closed
Received == IF items # <<>> THEN items[1] ELSE ZeroItem

\* the effects of a receive on the lexer's side of the state
Receive ==
    /\ lastPos' = Received.pos
    /\ items' = <<>>
    /\ emitted' = IF items # <<>> THEN Append(emitted, items[1]) ELSE emitted
    /\ UNCHANGED <<input, start, pos, width, lpc, closed>>

\* TestLexer: for { item := lexer.nextItem(); if EOF break; if error t.Error }
TestLexer ==
    /\ ~crashed
    /\ pc = "TestLexer_18"
    /\ Receivable
    /\ Receive
    /\ token' = Received
    /\ pc' = IF Received.typ = itemEOF THEN "TestLexer_done" ELSE "TestLexer_18"
    /\ UNCHANGED <<bytes, consumed, crashed, peekCount, scope, c, v, a, events, alarms,
                   prop, param, item, result>>

---------------------------------------------------------------------------
\* Go strings of the parser, as character sequences
PRODID == <<"P","R","O","D","I","D">>
VERSION == <<"V","E","R","S","I","O","N">>
CALSCALE == <<"C","A","L","S","C","A","L","E">>
METHOD == <<"M","E","T","H","O","D">>
UID == <<"U","I","D">>
DTSTAMP == <<"D","T","S","T","A","M","P">>
DTSTART == <<"D","T","S","T","A","R","T">>
DTEND == <<"D","T","E","N","D">>
DURATION == <<"D","U","R","A","T","I","O","N">>
SUMMARY == <<"S","U","M","M","A","R","Y">>
DESCRIPTION == <<"D","E","S","C","R","I","P","T","I","O","N">>
\* "ACTION" (ACTION is a reserved word of TLA+)
ACTION_ == <<"A","C","T","I","O","N">>
TRIGGER == <<"T","R","I","G","G","E","R">>
TZID == <<"T","Z","I","D">>
VALUE == <<"V","A","L","U","E">>
DATE == <<"D","A","T","E">>
GREGORIAN == <<"G","R","E","G","O","R","I","A","N">>

scopeCalendar == 0
scopeEvent == 1
scopeAlarm == 2

\* map[string]*Param, as a function on its keys
EmptyMap == [k \in {} |-> <<>>]
MapPut(m, k, x) == [y \in DOMAIN m \cup {k} |-> IF y = k THEN x ELSE m[y]]

\* time.Time.  A parsed time is the text it was parsed from, the location it
\* was parsed in and the hours added since; the zero Time is ZeroTime.
ZeroTime == [at |-> <<>>, loc |-> "UTC", plus |-> 0]
IsZero(t) == t = ZeroTime
Add(t, hours) == [t EXCEPT !.plus = @ + hours]

NewCalendar ==
    [Prodid |-> <<>>, Version |-> <<>>, Calscale |-> GREGORIAN, Method |-> <<>>,
     Properties |-> <<>>, Events |-> <<>>]
NewProperty == [Name |-> <<>>, Value |-> <<>>, Params |-> EmptyMap]
NewEvent ==
    [UID |-> <<>>, Timestamp |-> ZeroTime, StartDate |-> ZeroTime, EndDate |-> ZeroTime,
     Summary |-> <<>>, Description |-> <<>>, Properties |-> <<>>, Alarms |-> <<>>]
NewAlarm == [Action |-> <<>>, Trigger |-> <<>>, Properties |-> <<>>]
\* NewParam: Param.Values
NewParam == <<>>

\* the layouts of parseDate; a layout digit stands for any digit, the letters
\* T and Z for themselves
dateLayout == <<"2","0","0","6","0","1","0","2">>
dateTimeLayoutUTC == <<"2","0","0","6","0","1","0","2","T","1","5","0","4","0","5","Z">>
dateTimeLayoutLocalized == <<"2","0","0","6","0","1","0","2","T","1","5","0","4","0","5">>

\* time.Parse accepting any value
TimeParse_AnyValue(layout, value, loc) == [at |-> value, loc |-> loc, plus |-> 0]

\* time.Parse / time.ParseInLocation: the value must have the layout's shape
\* (field ranges, which the library also checks, are left out: the model's
\* dates are in range); a failure returns the zero Time with the error
TimeParse(layout, value, loc) ==
    IF /\ Len(value) = Len(layout)
       /\ \A i \in 1..Len(layout) :
             IF layout[i] \in Digits THEN value[i] \in Digits ELSE value[i] = layout[i]
    THEN [at |-> value, loc |-> loc, plus |-> 0]
    ELSE ZeroTime

\* time.LoadLocation: the zones the host knows
KnownZones == { <<"U","T","C">>, <<"C","E","T">> }
LoadLocation(name) == IF name \in KnownZones THEN name ELSE "UTC"

\* parseDate(p, l): the time (its error is dropped by every caller)
parseDate(p) ==
    IF Len(p.Value) > 0 /\ p.Value[Len(p.Value)] = "Z"
    THEN TimeParse(dateTimeLayoutUTC, p.Value, "UTC")
    ELSE IF TZID \in DOMAIN p.Params
    THEN TimeParse(dateTimeLayoutLocalized, p.Value, LoadLocation(p.Params[TZID][1]))
    ELSE IF Len(p.Value) = 8
    THEN TimeParse(dateLayout, p.Value, "UTC")
    ELSE LET layout == IF /\ VALUE \in DOMAIN p.Params
                          /\ p.Params[VALUE][1] = DATE
                          /\ Len(p.Value) = 8
                       THEN dateLayout ELSE dateTimeLayoutLocalized
         IN TimeParse(layout, p.Value, "Local")

hasProperty(name, properties) ==
    \E i \in 1..Len(properties) : properties[i].Name = name

\* propertyCount[name]++ on a map[string]int
Count(m, k) == IF k \in DOMAIN m THEN m[k] ELSE 0
Incr(m, k) == MapPut(m, k, Count(m, k) + 1)

\* validateCalendar: the calendar as the loop leaves it, and the error ("" for nil)
RECURSIVE validateCalendarLoop(_, _, _)
validateCalendarLoop(cal, i, propertyCount) ==
    IF i > Len(cal.Properties)
    THEN [c |-> cal,
          err |-> IF propertyCount # 2
                  THEN "missing required property prodid or version" ELSE ""]
    ELSE LET property == cal.Properties[i]
             c1 == IF property.Name = PRODID
                   THEN [cal EXCEPT !.Prodid = property.Value] ELSE cal
             n1 == IF property.Name = PRODID THEN propertyCount + 1 ELSE propertyCount
             c2 == IF property.Name = VERSION
                   THEN [c1 EXCEPT !.Version = property.Value] ELSE c1
             n2 == IF property.Name = VERSION THEN n1 + 1 ELSE n1
             c3 == IF property.Name = CALSCALE
                   THEN [c2 EXCEPT !.Calscale = property.Value] ELSE c2
             c4 == IF property.Name = METHOD
                   THEN [c3 EXCEPT !.Method = property.Value] ELSE c3
         IN validateCalendarLoop(c4, i + 1, n2)

validateCalendar(cal) == validateCalendarLoop(cal, 1, 0)

\* validateEvent's loop over v.Properties: the event as the loop leaves it,
\* the counts, and the error of an early return
RECURSIVE validateEventLoop(_, _, _)
validateEventLoop(ev, i, propertyCount) ==
    IF i > Len(ev.Properties)
    THEN [v |-> ev, count |-> propertyCount, err |-> ""]
    ELSE LET property == ev.Properties[i]
             n == property.Name
         IN CASE n = UID ->
                   validateEventLoop([ev EXCEPT !.UID = property.Value], i + 1,
                                     Incr(propertyCount, UID))
              [] n = DTSTAMP ->
                   validateEventLoop([ev EXCEPT !.Timestamp = parseDate(property)],
                                     i + 1, Incr(propertyCount, DTSTAMP))
              [] n = DTSTART ->
                   validateEventLoop([ev EXCEPT !.StartDate = parseDate(property)],
                                     i + 1, Incr(propertyCount, DTSTART))
              [] n = DTEND ->
                   IF hasProperty(DURATION, ev.Properties)
                   THEN [v |-> ev, count |-> propertyCount,
                         err |-> "cannot have both DTEND and DURATION"]
                   ELSE validateEventLoop([ev EXCEPT !.EndDate = parseDate(property)],
                                          i + 1, Incr(propertyCount, DTEND))
              [] n = DURATION ->
                   IF hasProperty(DTEND, ev.Properties)
                   THEN [v |-> ev, count |-> propertyCount,
                         err |-> "cannot have both DTEND and DURATION"]
                   ELSE validateEventLoop(ev, i + 1, Incr(propertyCount, DURATION))
              [] n = SUMMARY ->
                   validateEventLoop([ev EXCEPT !.Summary = property.Value], i + 1,
                                     Incr(propertyCount, SUMMARY))
              [] n = DESCRIPTION ->
                   validateEventLoop([ev EXCEPT !.Description = property.Value], i + 1,
                                     Incr(propertyCount, DESCRIPTION))
              [] OTHER -> validateEventLoop(ev, i + 1, propertyCount)

\* validateEvent without its check of v.UID
validateEvent_NoUIDCheck(ev, method) ==
    LET r == validateEventLoop(ev, 1, EmptyMap)
        e == r.v
    IN IF r.err # "" THEN [v |-> e, err |-> r.err]
       ELSE IF method = <<>> /\ IsZero(e.Timestamp)
       THEN [v |-> e, err |-> "missing required property DTSTAMP"]
       ELSE IF IsZero(e.StartDate)
       THEN [v |-> e, err |-> "missing required property DTSTART"]
       ELSE IF \E k \in DOMAIN r.count : r.count[k] > 1
       THEN [v |-> e, err |-> "property occurs more than once"]
       ELSE IF ~hasProperty(DTEND, e.Properties)
       THEN [v |-> [e EXCEPT !.EndDate = Add(e.StartDate, 24)], err |-> ""]
       ELSE [v |-> e, err |-> ""]

\* validateEvent requiring DTSTAMP whatever the calendar's Method
validateEvent_StampAlways(ev, method) ==
    LET r == validateEventLoop(ev, 1, EmptyMap)
        e == r.v
    IN IF r.err # "" THEN [v |-> e, err |-> r.err]
       ELSE IF IsZero(e.Timestamp)
       THEN [v |-> e, err |-> "missing required property DTSTAMP"]
       ELSE IF e.UID = <<>>
       THEN [v |-> e, err |-> "missing required property UID"]
       ELSE IF IsZero(e.StartDate)
       THEN [v |-> e, err |-> "missing required property DTSTART"]
       ELSE IF \E k \in DOMAIN r.count : r.count[k] > 1
       THEN [v |-> e, err |-> "property occurs more than once"]
       ELSE IF ~hasProperty(DTEND, e.Properties)
       THEN [v |-> [e EXCEPT !.EndDate = Add(e.StartDate, 24)], err |-> ""]
       ELSE [v |-> e, err |-> ""]

\* validateEvent(v) with p.c.Method = method: the event as it is left, and the
\* error ("" for nil)
validateEvent(ev, method) ==
    LET r == validateEventLoop(ev, 1, EmptyMap)
        e == r.v
    IN IF r.err # "" THEN [v |-> e, err |-> r.err]
       ELSE IF method = <<>> /\ IsZero(e.Timestamp)
       THEN [v |-> e, err |-> "missing required property DTSTAMP"]
       ELSE IF e.UID = <<>>
       THEN [v |-> e, err |-> "missing required property UID"]
       ELSE IF IsZero(e.StartDate)
       THEN [v |-> e, err |-> "missing required property DTSTART"]
       ELSE IF \E k \in DOMAIN r.count : r.count[k] > 1
       THEN [v |-> e, err |-> "property occurs more than once"]
       ELSE IF ~hasProperty(DTEND, e.Properties)
       THEN [v |-> [e EXCEPT !.EndDate = Add(e.StartDate, 24)], err |-> ""]
       ELSE [v |-> e, err |-> ""]

RECURSIVE validateAlarmLoop(_, _, _)
validateAlarmLoop(al, i, propertyCount) ==
    IF i > Len(al.Properties)
    THEN [a |-> al, count |-> propertyCount]
    ELSE LET property == al.Properties[i]
         IN CASE property.Name = ACTION_ ->
                   validateAlarmLoop([al EXCEPT !.Action = property.Value], i + 1,
                                     Incr(propertyCount, ACTION_))
              [] property.Name = TRIGGER ->
                   validateAlarmLoop([al EXCEPT !.Trigger = property.Value], i + 1,
                                     Incr(propertyCount, TRIGGER))
              [] OTHER -> validateAlarmLoop(al, i + 1, propertyCount)

\* validateAlarm(a): the second loop ranges over the keys the first one counted
validateAlarm(al) ==
    LET r == validateAlarmLoop(al, 1, EmptyMap)
    IN IF \E k \in DOMAIN r.count : r.count[k] < 1
       THEN [a |-> r.a, err |-> "missing required property"]
       ELSE IF \E k \in DOMAIN r.count : r.count[k] > 1
       THEN [a |-> r.a, err |-> "property occurs more than once"]
       ELSE [a |-> r.a, err |-> ""]

---------------------------------------------------------------------------
\* The parsing goroutine.  Each action is one call of p.next() and the code
\* that follows it up to the next call of p.next() or to Parse's return.

\* p.next() can proceed: a pushed-back token, or a receive that can proceed
CanNext == peekCount > 0 \/ Receivable
\* the item p.next() returns
NextTok == IF peekCount > 0 THEN token ELSE Received

\* p.next(): what it does to token and to the lexer's side
next ==
    /\ token' = NextTok
    /\ IF peekCount > 0
       THEN UNCHANGED <<input, start, pos, width, lastPos, lpc, items, closed, emitted,
                        consumed>>
       ELSE Receive /\ consumed' = Append(consumed, Received)

\* the parser's fields and locals right after p.next()
P ==
    [pc |-> pc, peekCount |-> IF peekCount > 0 THEN peekCount - 1 ELSE peekCount,
     scope |-> scope, c |-> c, v |-> v, a |-> a, events |-> events, alarms |-> alarms,
     prop |-> prop, param |-> param, item |-> item, result |-> result,
     crashed |-> crashed]

Set(n) ==
    /\ UNCHANGED bytes
    /\ pc' = n.pc
    /\ peekCount' = n.peekCount
    /\ scope' = n.scope
    /\ c' = n.c
    /\ v' = n.v
    /\ a' = n.a
    /\ events' = n.events
    /\ alarms' = n.alarms
    /\ prop' = n.prop
    /\ param' = n.param
    /\ item' = n.item
    /\ result' = n.result
    /\ crashed' = n.crashed

\* return p.c, err
Fail_WithDocument(s, err) ==
    [s EXCEPT !.pc = "returned", !.result = [doc |-> <<s.c>>, err |-> err]]
\* return nil, err
Fail(s, err) == [s EXCEPT !.pc = "returned", !.result = [doc |-> <<>>, err |-> err]]
\* return p.c, nil
Succeed(s) == [s EXCEPT !.pc = "returned", !.result = [doc |-> <<s.c>>, err |-> ""]]
\* a nil pointer dereference
Panic(s) == [s EXCEPT !.pc = "panic", !.crashed = TRUE]

\* p.backup()
backup(s) == [s EXCEPT !.peekCount = @ + 1]
\* p.enterScope(), p.leaveScope()
enterScope(s) == [s EXCEPT !.scope = @ + 1]
leaveScope(s) == [s EXCEPT !.scope = @ - 1]

ParserRuns(l) == ~crashed /\ pc = l /\ CanNext

parse ==
    \/ /\ ParserRuns("parse_170")
       /\ next
       /\ Set(IF NextTok.typ # itemBeginVCalendar
              THEN Fail(P, "expected BEGIN:VCALENDAR")
              ELSE [P EXCEPT !.pc = "parse_173"])
    \/ /\ ParserRuns("parse_173")
       /\ next
       /\ Set(IF NextTok.typ # itemLineEnd
              THEN Fail(P, "expected CRLF")
              ELSE [P EXCEPT !.pc = "scanContentLine_238"])

\* scanDelimiter(delimiter) from parser state s, up to its p.next(), its error
\* return, or its return of errorDone (on which parse returns p.c, nil)
scanDelimiter(delimiter, s) ==
    CASE delimiter.typ = itemBeginVEvent ->
           LET r == validateCalendar(s.c)
               s1 == [s EXCEPT !.c = r.c]
           IN IF r.err # "" THEN Fail(s1, r.err)
              ELSE enterScope([s1 EXCEPT !.events = Append(@, NewEvent),
                                         !.v = Len(s.events) + 1,
                                         !.pc = "scanDelimiter_197"])
      [] delimiter.typ = itemEndVEvent ->
           IF s.scope > scopeEvent THEN Fail(s, "expected END:VALARM")
           ELSE IF s.v = 0 THEN Panic(s)
           ELSE LET r == validateEvent(s.events[s.v], s.c.Method)
                    s1 == [s EXCEPT !.events[s.v] = r.v]
                IN IF r.err # "" THEN Fail(s1, r.err)
                   ELSE leaveScope([s1 EXCEPT !.c.Events = Append(@, s.v),
                                              !.pc = "scanDelimiter_209"])
      [] delimiter.typ = itemBeginVAlarm ->
           enterScope([s EXCEPT !.alarms = Append(@, NewAlarm),
                                !.a = Len(s.alarms) + 1,
                                !.pc = "scanDelimiter_215"])
      [] delimiter.typ = itemEndVAlarm ->
           IF s.a = 0 THEN Panic(s)
           ELSE LET r == validateAlarm(s.alarms[s.a])
                    s1 == [s EXCEPT !.alarms[s.a] = r.a]
                IN IF r.err # "" THEN Fail(s1, r.err)
                   ELSE IF s.v = 0 THEN Panic(s1)
                   ELSE leaveScope([s1 EXCEPT !.events[s.v].Alarms = Append(@, s.a),
                                              !.pc = "scanDelimiter_224"])
      [] delimiter.typ = itemEndVCalendar ->
           IF s.scope > scopeCalendar THEN Fail(s, "expected END:VEVENT")
           ELSE Succeed(s)
      [] OTHER -> [s EXCEPT !.pc = "scanContentLine_238"]

\* the switch on p.scope that ends scanContentLine
appendProperty(s) ==
    CASE s.scope = scopeCalendar -> [s EXCEPT !.c.Properties = Append(@, s.prop)]
      [] s.scope = scopeEvent ->
           IF s.v = 0 THEN Panic(s)
           ELSE [s EXCEPT !.events[s.v].Properties = Append(@, s.prop)]
      [] s.scope = scopeAlarm ->
           IF s.a = 0 THEN Panic(s)
           ELSE [s EXCEPT !.alarms[s.a].Properties = Append(@, s.prop)]
      [] OTHER -> s

isItemComponent(i) == i.typ = itemComponent

scanContentLine ==
    \/ /\ ParserRuns("scanContentLine_238")
       /\ next
       /\ LET name == NextTok
          IN Set(IF name.typ > itemKeyword THEN scanDelimiter(name, P)
                 ELSE IF ~isItemComponent(name)
                 THEN Fail(P, "expected a component token")
                 ELSE [P EXCEPT !.prop = [NewProperty EXCEPT !.Name = name.val],
                                !.pc = "scanParams_283"])
    \/ /\ ParserRuns("scanContentLine_253")
       /\ next
       /\ Set(IF NextTok.typ # itemColon
              THEN Fail(P, "expected :")
              ELSE [P EXCEPT !.pc = "scanContentLine_257"])
    \/ /\ ParserRuns("scanContentLine_257")
       /\ next
       /\ Set(IF NextTok.typ # itemValue
              THEN Fail(P, "expected a value")
              ELSE [P EXCEPT !.prop.Value = NextTok.val,
                             !.pc = "scanContentLine_263"])
    \/ /\ ParserRuns("scanContentLine_263")
       /\ next
       /\ Set(IF NextTok.typ # itemLineEnd
              THEN Fail(P, "expected CRLF")
              ELSE LET s == appendProperty(P)
                   IN IF s.crashed THEN s ELSE [s EXCEPT !.pc = "scanContentLine_238"])

\* the p.next() that ends each case of scanDelimiter
scanDelimiterLineEnd ==
    /\ \E l \in {"scanDelimiter_197", "scanDelimiter_209", "scanDelimiter_215",
                 "scanDelimiter_224"} : ParserRuns(l)
    /\ next
    /\ Set(IF NextTok.typ # itemLineEnd
           THEN Fail(P, "expected CRLF")
           ELSE [P EXCEPT !.pc = "scanContentLine_238"])

\* the key scanParams stores the parameter under: item.val, where item is
\* the variable the three p.next() calls of the loop assign in turn
paramKey(s) == s.item.val

scanParams ==
    \/ /\ ParserRuns("scanParams_283")
       /\ next
       /\ Set(IF NextTok.typ # itemSemiColon
              THEN backup([P EXCEPT !.item = NextTok, !.pc = "scanContentLine_253"])
              ELSE [P EXCEPT !.item = NextTok, !.pc = "scanParams_287"])
    \/ /\ ParserRuns("scanParams_287")
       /\ next
       /\ Set(IF NextTok.typ # itemParamName
              THEN Fail([P EXCEPT !.item = NextTok], "expected a parameter name")
              ELSE [P EXCEPT !.item = NextTok, !.pc = "scanParams_290"])
    \/ /\ ParserRuns("scanParams_290")
       /\ next
       /\ Set(IF NextTok.typ # itemEqual
              THEN Fail([P EXCEPT !.item = NextTok], "expected =")
              ELSE [P EXCEPT !.item = NextTok, !.param = NewParam,
                             !.pc = "scanValues_305"])

scanValues ==
    \/ /\ ParserRuns("scanValues_305")
       /\ next
       /\ Set(IF NextTok.typ # itemParamValue
              THEN Fail(P, "expected a parameter value")
              ELSE [P EXCEPT !.param = Append(@, NextTok.val),
                             !.pc = "scanValues_309"])
    \/ /\ ParserRuns("scanValues_309")
       /\ next
       /\ Set(IF NextTok.typ # itemComma
              THEN \* back in scanParams: prop.Params[item.val] = param
                   LET s == backup(P)
                   IN [s EXCEPT !.prop.Params = MapPut(@, paramKey(s), s.param),
                                !.pc = "scanParams_283"]
              ELSE [P EXCEPT !.pc = "scanValues_305"])

Parser ==
    \/ parse
    \/ scanContentLine
    \/ scanDelimiterLineEnd
    \/ scanParams
    \/ scanValues

---------------------------------------------------------------------------
\* The texts Parse and the lexer are run on.

MaxCalProps == 2      \* top-level property lines before the first component
MaxChanges == 2       \* properties of an event that differ from the valid event
MaxItems == 4         \* delimiters and property lines in a calendar's body
MaxAlarmProps == 2    \* property lines of an alarm block
MaxValues == 2        \* values of a parameter

SeqsUpTo(S, n) == UNION {[1..k -> S] : k \in 0..n}
SeqsFromTo(S, m, n) == UNION {[1..k -> S] : k \in m..n}

RECURSIVE Flatten(_)
Flatten(ss) == IF ss = <<>> THEN <<>> ELSE Head(ss) \o Flatten(Tail(ss))

RECURSIVE Reverse(_)
Reverse(ss) == IF ss = <<>> THEN <<>> ELSE Reverse(Tail(ss)) \o <<Head(ss)>>

\* a content line name:value CRLF, and a delimiter line
Line(name, value) == name \o <<":">> \o value \o crlf
DLine(lit) == lit \o crlf

dateUTC == <<"2","0","2","3","0","6","1","5","T","1","2","0","0","0","0","Z">>
dateLocal == <<"2","0","2","3","0","6","1","5","T","1","2","0","0","0","0">>
dateOnly == <<"2","0","2","3","0","6","1","5">>
dateEnd == <<"2","0","2","3","0","6","1","6">>
dateBad == <<"2","0","2","3">>

lPRODID == Line(PRODID, <<"-">>)
lVERSION == Line(VERSION, <<"2",".","0">>)
lMETHOD == Line(METHOD, <<"P">>)
lUID == Line(UID, <<"u">>)
lDTSTAMP == Line(DTSTAMP, dateUTC)
lDTSTART == Line(DTSTART, dateOnly)
lDTEND == Line(DTEND, dateEnd)
lDURATION == Line(DURATION, <<"P","1","D">>)
lSUMMARY == Line(SUMMARY, <<"s">>)
lACTION == Line(ACTION_, <<"A">>)
lTRIGGER == Line(TRIGGER, <<"T">>)
lDTSTARTTZ ==
    DTSTART \o <<";">> \o TZID \o <<"=","C","E","T",":">> \o dateLocal \o crlf

GoodHead == lPRODID \o lVERSION
GoodEventProps == lUID \o lDTSTAMP \o lDTSTART
GoodEvent == DLine(beginVEvent) \o GoodEventProps \o DLine(endVEvent)

\* BEGIN:VCALENDAR, the body, END:VCALENDAR
Doc(body) == DLine(beginVCalendar) \o body \o DLine(endVCalendar)

\* top-level properties in any number and order, with and without an event
CalDocs ==
    { Doc(Flatten(h) \o e) :
        h \in SeqsUpTo({lPRODID, lVERSION, lMETHOD}, MaxCalProps),
        e \in {<<>>, GoodEvent} }

\* one event: the valid event (UID, DTSTAMP, DTSTART) with at most MaxChanges
\* of its properties changed (left out, added, or in another form), its lines
\* in the order written here or in the reverse order, with and without METHOD
ValidEvent == << <<>>, lUID, lDTSTAMP, lDTSTART, <<>>, <<>> >>
EventPicks ==
    LET picks ==
          { <<e, u, s, t, m, d>> :
              e \in {<<>>, lDTEND, Line(DTEND, dateBad)},
              u \in {lUID, <<>>, Line(UID, <<>>)},
              s \in {lDTSTAMP, <<>>, Line(DTSTAMP, dateBad)},
              t \in {lDTSTART, <<>>, Line(DTSTART, dateBad), lDTSTARTTZ},
              m \in {<<>>, lSUMMARY},
              d \in {<<>>, lDURATION} }
    IN { f \in picks :
           Cardinality({i \in 1..Len(ValidEvent) : f[i] # ValidEvent[i]})
               <= MaxChanges }
EventOrders(f) == {Flatten(f), Flatten(Reverse(f))}
EventBodies == UNION {EventOrders(f) : f \in EventPicks}

\* the top-level lines before the event: no METHOD, a METHOD, an empty METHOD
EventHeads == {GoodHead, lMETHOD \o GoodHead, Line(METHOD, <<>>) \o GoodHead}
EventDoc(h, b) == Doc(h \o DLine(beginVEvent) \o b \o DLine(endVEvent))
EventDocs == { EventDoc(h, b) : h \in EventHeads, b \in EventBodies }

\* delimiters and property lines in any order
Items ==
    { DLine(beginVEvent) \o GoodEventProps, DLine(endVEvent),
      DLine(beginVAlarm), DLine(endVAlarm), lSUMMARY }

NestDocs == { Doc(GoodHead \o Flatten(b)) : b \in SeqsUpTo(Items, MaxItems) }

\* one event and one alarm block, inside the event or after it
AlarmBlocks ==
    { DLine(beginVAlarm) \o Flatten(ps) \o DLine(endVAlarm) :
        ps \in SeqsUpTo({lACTION, lTRIGGER, lDURATION}, MaxAlarmProps) }
AlarmDocs ==
    { Doc(GoodHead \o DLine(beginVEvent) \o GoodEventProps \o lDTEND \o b
          \o DLine(endVEvent)) : b \in AlarmBlocks }
    \cup
    { Doc(GoodHead \o DLine(beginVEvent) \o GoodEventProps \o lDTEND
          \o DLine(endVEvent) \o b) : b \in AlarmBlocks }

\* a content line with parameters: X[;TZID=value,...][;VALUE=value,...]:v,
\* each value plain or quoted; no values stands for no parameter
ParamValueTexts == { <<"b">>, <<"\"","c",",","d",";","e",":","f","\"">> }
RECURSIVE Joined(_, _)
Joined(ss, sep) ==
    IF Len(ss) = 1 THEN ss[1] ELSE ss[1] \o sep \o Joined(Tail(ss), sep)
ParamValueLists == SeqsUpTo(ParamValueTexts, MaxValues)
ParamGroup(n, vs) ==
    IF vs = <<>> THEN <<>> ELSE <<";">> \o n \o <<"=">> \o Joined(vs, <<",">>)
ParamDoc(vs1, vs2) ==
    Doc(GoodHead \o <<"X">> \o ParamGroup(TZID, vs1) \o ParamGroup(VALUE, vs2)
        \o <<":","v">> \o crlf)
ParamDocs == { ParamDoc(vs1, vs2) : vs1 \in ParamValueLists, vs2 \in ParamValueLists }

\* malformed texts: a text cut short anywhere, or with any one byte missing
RichText ==
    DLine(beginVCalendar)
    \o <<"X",";","A","=","b",",","c",";","D","=","\"","e",",","f","\"",":","v">> \o crlf
    \o <<"S",":","H","i","\r","\n"," ","y","o","u">> \o crlf
    \o DLine(endVCalendar)
Prefixes(t) == { SubSeq(t, 1, n) : n \in 0..Len(t) }
Deletions(t) == { SubSeq(t, 1, n - 1) \o SubSeq(t, n + 1, Len(t)) : n \in 1..Len(t) }
TextDocs == Prefixes(RichText) \cup Deletions(RichText)

Inputs == CalDocs \cup EventDocs \cup NestDocs \cup AlarmDocs \cup ParamDocs \cup TextDocs

---------------------------------------------------------------------------
\* lex(name, input): the lexer as go l.run() starts it
InitLexer(text) ==
    /\ input = text
    /\ start = 0
    /\ pos = 0
    /\ width = 0
    /\ lastPos = 0
    /\ lpc = "lexComponent"
    /\ items = <<>>
    /\ closed = FALSE
    /\ crashed = FALSE
    /\ emitted = <<>>

InitParser(at) ==
    /\ pc = at
    /\ consumed = <<>>
    /\ token = ZeroItem
    /\ peekCount = 0
    /\ scope = scopeCalendar
    /\ c = NewCalendar
    /\ v = 0
    /\ a = 0
    /\ events = <<>>
    /\ alarms = <<>>
    /\ prop = NewProperty
    /\ param = NewParam
    /\ item = ZeroItem
    /\ result = [doc |-> <<>>, err |-> ""]

\* Parse(r, l) up to its call of p.parse()
Init ==
    \E text \in Inputs :
        /\ bytes = text
        /\ InitLexer(unfold(text))
        /\ InitParser("parse_170")

Next == Lexer \/ Parser

Spec == Init /\ [][Next]_vars

\* The two goroutines under the Go scheduler: a goroutine that can run is run
\* in the end.
FairSpec == Spec /\ WF_vars(Lexer) /\ WF_vars(Parser)

\* TestLexer: the lexer alone, with a consumer that pulls until end-of-input
LexInit ==
    \E text \in Inputs :
        /\ bytes = text
        /\ InitLexer(unfold(text))
        /\ InitParser("TestLexer_18")

LexNext == Lexer \/ TestLexer

LexSpec == LexInit /\ [][LexNext]_vars

\* Parse's first lines alone, on every short text of line breaks, spaces and
\* letters: text := unfold(string(bytes))
MaxText == 6
FoldAlphabet == {"\r", "\n", " ", "a"}
FoldTexts == SeqsUpTo(FoldAlphabet, MaxText)

UnfoldInit ==
    \E text \in FoldTexts :
        /\ bytes = text
        /\ InitLexer(<<>>)
        /\ InitParser("Parse_72")

Parse ==
    /\ pc = "Parse_72"
    /\ input' = unfold(bytes)
    /\ pc' = "Parse_73"
    /\ UNCHANGED <<bytes, start, pos, width, lastPos, lpc, items, closed, crashed,
                   emitted, consumed, token, peekCount, scope, c, v, a, events,
                   alarms, prop, param, item, result>>

UnfoldSpec == UnfoldInit /\ [][Parse]_vars

---------------------------------------------------------------------------
\* What the claims speak of.

Returned == pc = "returned"
ParseOk == Returned /\ result.err = ""
ParseFailed == Returned /\ result.err # ""

\* the Event objects the Document holds
DocEvents == { events[c.Events[i]] : i \in 1..Len(c.Events) }

CountOf(name, properties) ==
    Cardinality({i \in 1..Len(properties) : properties[i].Name = name})
Has(name, properties) == CountOf(name, properties) > 0

\* C1: for every input Parse returns: as long as no goroutine has panicked and
\* Parse has not returned, the pipeline can take a step that changes its state
\* (the lexer is never in a loop that emits nothing while the parser waits).
C1_ParseReturns == ~crashed => (Returned \/ ENABLED <<Next>>_vars)

\* C2: the lexer emits at most one error item, and no item after an error item.
C2_ErrorEndsTheStream ==
    \A i \in 1..Len(emitted) : emitted[i].typ = itemError => i = Len(emitted)

\* C3: when the lexer has halted and closed the channel, the last item it
\* emitted is the end-of-input item or an error item.
C3_LastItemIsEOFOrError ==
    closed => /\ emitted # <<>>
              /\ emitted[Len(emitted)].typ \in {itemEOF, itemError}

\* C4: a document whose top-level properties lack PRODID or VERSION is never
\* parsed successfully, with or without a VEVENT.
C4_ProdidAndVersionRequired ==
    ParseOk => /\ Has(PRODID, c.Properties)
               /\ Has(VERSION, c.Properties)

\* C5: for the minimal document BEGIN:VCALENDAR, PRODID:p, VERSION:v,
\* END:VCALENDAR, Parse succeeds with Prodid = p, Version = v and empty Events
\* and Properties.
C5_MinimalDocument ==
    \A p \in {<<"-">>}, ver \in {<<"2",".","0">>} :
        (Returned /\ input = Doc(Line(PRODID, p) \o Line(VERSION, ver)))
        => /\ result.err = ""
           /\ result.doc[1].Prodid = p
           /\ result.doc[1].Version = ver
           /\ result.doc[1].Events = <<>>
           /\ result.doc[1].Properties = <<>>

\* C6: END:VALARM is accepted only as the end of an open alarm: once the parser
\* has accepted it and left the scope, the scope is Event; and END:VALARM at
\* Event scope with no alarm opened (p.a is nil) is rejected with an error,
\* it does not make the parser panic.
C6_EndVAlarmClosesAnAlarm ==
    /\ pc = "scanDelimiter_224" => scope = scopeEvent
    /\ (pc = "panic" /\ token.typ = itemEndVAlarm) => ~(scope = scopeEvent /\ a = 0)

\* C7: an alarm that validateAlarm accepted has exactly one ACTION and exactly
\* one TRIGGER among its properties.
C7_AlarmActionAndTriggerOnce ==
    pc = "scanDelimiter_224" =>
        /\ CountOf(ACTION_, alarms[a].Properties) = 1
        /\ CountOf(TRIGGER, alarms[a].Properties) = 1

\* the name of the parameter group scanned last, as the lexer emitted it
LastParamName ==
    LET names == {i \in 1..Len(emitted) : emitted[i].typ = itemParamName}
    IN emitted[CHOOSE i \in names : \A j \in names : j <= i].val

\* C8: when scanParams has stored a parameter group, the property's Params
\* holds the group's values under the group's name as written.
C8_ParamKeyedByItsName ==
    (pc = "scanParams_283" /\ peekCount = 1) =>
        /\ LastParamName \in DOMAIN prop.Params
        /\ prop.Params[LastParamName] = param

C10_NoEventWithDtendAndDuration ==
    ParseOk =>
        \A e \in DocEvents :
            ~(Has(DTEND, e.Properties) /\ Has(DURATION, e.Properties))

\* the error validateEvent returns for a zero Timestamp
ErrDTSTAMP == "missing required property DTSTAMP"

\* the picked lines f of an event hold DTEND and DURATION together
EndAndDuration(f) == f[1] # <<>> /\ f[6] # <<>>

\* For the one-event documents: Parse on the head h and the event lines f (in
\* either order), where the event has no well-formed DTSTAMP and no
\* DTEND with DURATION, returns the DTSTAMP error exactly when h is not one
\* of the heads in declared.
StampRule(declared) ==
    Returned =>
        \A h \in EventHeads, f \in EventPicks :
            (f[3] # lDTSTAMP /\ ~EndAndDuration(f)) =>
                \A b \in EventOrders(f) :
                    input = EventDoc(h, b) =>
                        (result.err = ErrDTSTAMP <=> h \notin declared)

\* the heads with a METHOD line, and those with a METHOD line that has a value
MethodPresent == EventHeads \ {GoodHead}
MethodValued == {lMETHOD \o GoodHead}

lDTENDBad == Line(DTEND, dateBad)
lDTSTAMPBad == Line(DTSTAMP, dateBad)
lDTSTARTBad == Line(DTSTART, dateBad)

\* For the one-event documents: Parse on the head h and the event lines f (in
\* either order) succeeds exactly when the event has a UID, a DTSTAMP or a
\* declared METHOD, a DTSTART, and not DTEND with DURATION, where a DTSTAMP
\* or DTSTART line with a malformed date counts as present if
\* malformedCounts and as missing otherwise; and on success a malformed
\* DTEND leaves EndDate the zero time.
DateRule(malformedCounts) ==
    Returned =>
        \A h \in EventHeads, f \in EventPicks :
            LET stamp == f[3] = lDTSTAMP \/ (malformedCounts /\ f[3] = lDTSTAMPBad)
                begin == f[4] \in {lDTSTART, lDTSTARTTZ}
                         \/ (malformedCounts /\ f[4] = lDTSTARTBad)
                accepted == /\ f[2] = lUID
                            /\ stamp \/ h \in MethodValued
                            /\ begin
                            /\ ~EndAndDuration(f)
            IN \A b \in EventOrders(f) :
                  input = EventDoc(h, b) =>
                      /\ result.err = "" <=> accepted
                      /\ (result.err = "" /\ f[1] = lDTENDBad) =>
                             \A e \in DocEvents : IsZero(e.EndDate)

Folds(text) == {j \in 1..Len(text) : HasPrefixAt(text, j - 1, fold)}

\* the characters of s occur in t in the same order
RECURSIVE IsSubsequence(_, _)
IsSubsequence(s, t) ==
    IF s = <<>> THEN TRUE
    ELSE IF t = <<>> THEN FALSE
    ELSE IF Head(s) = Head(t) THEN IsSubsequence(Tail(s), Tail(t))
    ELSE IsSubsequence(s, Tail(t))

\* C13 as stated: the text one unfold pass leaves contains no CR LF SPACE, so
\* that unfolding it again changes nothing, and its characters are those of
\* the original in their original order.
C13_UnfoldIdempotent ==
    pc = "Parse_73" =>
        /\ Folds(input) = {}
        /\ unfold(input) = input
        /\ IsSubsequence(input, bytes)

\* C13, amended: one unfold pass removes every occurrence of CR LF SPACE of
\* the original (three characters each) and keeps the other characters in
\* their order; the result contains no CR LF SPACE, and unfolding it again
\* changes nothing, when no CR LF SPACE of the original directly follows a
\* CR or an LF.
C13_UnfoldOnePass ==
    pc = "Parse_73" =>
        /\ IsSubsequence(input, bytes)
        /\ Len(bytes) = Len(input) + Len(fold) * Cardinality(Folds(bytes))
        /\ (\A j \in Folds(bytes) : j = 1 \/ bytes[j - 1] \notin {"\r", "\n"})
           => (Folds(input) = {} /\ unfold(input) = input)

\* a text with a fold between other characters, unfolded
C13_Witness ==
    /\ pc = "Parse_73"
    /\ \E j \in Folds(bytes) : j > 1 /\ j + Len(fold) <= Len(bytes)
    /\ Len(input) = Len(bytes) - Len(fold)
    /\ Folds(input) = {}


\* the parameter-value items and the comma items of a stream
IsParamValue(t) == t.typ = itemParamValue
IsComma(t) == t.typ = itemComma
Vals(ts) == [i \in 1..Len(ts) |-> ts[i].val]

\* a value as written, without the quotes around it
Unquoted(t) == IF t[1] = "\"" THEN SubSeq(t, 2, Len(t) - 1) ELSE t
Unquote(vs) == [i \in 1..Len(vs) |-> Unquoted(vs[i])]
IsPrefix(s, t) == Len(s) <= Len(t) /\ SubSeq(t, 1, Len(s)) = s
Separators(vs) == IF vs = <<>> THEN 0 ELSE Len(vs) - 1

\* C14: on a content line whose parameter values are written plain or in
\* quotes, the parameter-value items the lexer emits are, in order, the
\* values as written with the quotes left out: a quoted value with commas,
\* semicolons and colons inside is one item, the only comma items are those
\* of the commas between values, and no item holds a quote.
C14_QuotedValueIsOneItem ==
    HasPrefixAt(input, Len(DLine(beginVCalendar) \o GoodHead), <<"X">>) =>
    \A vs1 \in ParamValueLists, vs2 \in ParamValueLists :
        input = ParamDoc(vs1, vs2) =>
            LET values == SelectSeq(emitted, IsParamValue)
                commas == SelectSeq(emitted, IsComma)
            IN /\ IsPrefix(Vals(values), Unquote(vs1 \o vs2))
               /\ Len(commas) <= Separators(vs1) + Separators(vs2)
               /\ \A i \in 1..Len(emitted) :
                     \A j \in 1..Len(emitted[i].val) : emitted[i].val[j] # "\""
               /\ closed => /\ Vals(values) = Unquote(vs1 \o vs2)
                            /\ Len(commas) = Separators(vs1) + Separators(vs2)

\* the lexer has halted after emitting a quoted value with a comma inside as
\* one item, and a comma item for a comma between values
C14_Witness ==
    /\ closed
    /\ \E i \in 1..Len(emitted) :
          /\ emitted[i].typ = itemParamValue
          /\ \E j \in 1..Len(emitted[i].val) : emitted[i].val[j] = ","
          /\ input[emitted[i].pos] = "\""
    /\ \E i \in 1..Len(emitted) : emitted[i].typ = itemComma


\* C15: the items the parser has received are, in order, the first of the
\* items the lexer has emitted (those handed over and the one its blocked
\* send offers); the lexer is at most one undelivered item ahead; and the
\* parser has at most one item pushed back.
C15_InOrderRendezvous ==
    /\ IsPrefix(consumed, emitted \o items)
    /\ Len(items) <= 1
    /\ peekCount \in {0, 1}


\* C16: when Parse has returned, an error comes with the nil document and a
\* document comes with the nil error.
C16_FailsAtomically ==
    Returned =>
        /\ result.err # "" => result.doc = <<>>
        /\ result.doc # <<>> => result.err = ""

\* Parse has failed on a validation error after the parser had built part of
\* the document, and returned no document
C16_Witness ==
    /\ ParseFailed
    /\ result.err = "missing required property UID"
    /\ c.Properties # <<>>
    /\ events # <<>>
    /\ result.doc = <<>>


\* C17: the scope counter is Calendar, Event or Alarm, and the entity it
\* designates exists: at Event scope the parser has an event, at Alarm scope
\* an alarm.
C17_ScopeDesignatesAnEntity ==
    /\ scope \in {scopeCalendar, scopeEvent, scopeAlarm}
    /\ scope = scopeEvent => v # 0
    /\ scope = scopeAlarm => a # 0


IsBeginVEvent(t) == t.typ = itemBeginVEvent

\* C18: no Event is in the Document's Events twice, no Alarm is in the Alarms
\* of two Events or twice in those of one, and a returned Document has as
\* many Events as the input has BEGIN:VEVENT lines.
C18_DocumentIsATree ==
    /\ \A i, j \in 1..Len(c.Events) : c.Events[i] = c.Events[j] => i = j
    /\ \A e1, e2 \in 1..Len(events) :
          \A i \in 1..Len(events[e1].Alarms), j \in 1..Len(events[e2].Alarms) :
              events[e1].Alarms[i] = events[e2].Alarms[j] => (e1 = e2 /\ i = j)
    /\ ParseOk => Len(c.Events) = Len(SelectSeq(emitted, IsBeginVEvent))


\* the error validateCalendar returns
ErrCalendar == "missing required property prodid or version"

\* C19: validateCalendar accepts the top-level properties exactly when PRODID
\* occurs once and VERSION occurs once among them: after it accepted (at
\* BEGIN:VEVENT) both occur once, and when it rejected they do not.
C19_ProdidOnceAndVersionOnce ==
    LET once == /\ CountOf(PRODID, c.Properties) = 1
                /\ CountOf(VERSION, c.Properties) = 1
    IN /\ (pc = "scanDelimiter_197" /\ token.typ = itemBeginVEvent) => once
       /\ (ParseFailed /\ result.err = ErrCalendar) => ~once


\* C20: the lexer's cursors satisfy 0 <= start <= pos <= len(input), so that
\* no emit slices the input out of range, and the start offsets of the items
\* emitted never decrease.
C20_CursorsInRange ==
    /\ 0 <= start /\ start <= pos /\ pos <= Len(input)
    /\ lpc # "panic"
    /\ \A i, j \in 1..Len(emitted) : i <= j => emitted[i].pos <= emitted[j].pos


\* C21: once Parse has returned, the lexer goroutine in the end halts and
\* closes the channel: it is not left blocked for ever in a send that nobody
\* receives.
C21_LexerHaltsAfterReturn == Returned ~> closed

=============================================================================
